---- MODULE Spec2Model ----
(***************************************************************************)
(* A model of app.py: the SPX / VIX dashboard.                             *)
(*                                                                         *)
(*   main():  read_data x2 -> add_moving_averages x2 -> combine_dfs        *)
(*            -> create_plot (widgets, filter, chart, statistics)          *)
(*                                                                         *)
(* The hosting runtime re-runs main() from the top after every change of   *)
(* a widget; the widget values are the only state kept between runs.       *)
(*                                                                         *)
(* Numbers.  A binary floating-point value is the record [n, k], standing  *)
(* for n / 2^k (k >= 0, n odd unless k = 0).  A value that the code rounds *)
(* to two decimals (the ma columns, the formatted statistics) is the       *)
(* record [h], standing for h / 100.  NaN is the undefined value.          *)
(* Time is counted in minutes since the epoch; a date is a day number.     *)
(***************************************************************************)
EXTENDS Integers, Sequences, FiniteSets, TLC

VARIABLES
    rawSpx,        \* contents of SPX.parquet: records [date, close]
    rawVix,        \* contents of VIX4y.parquet
    nat_accepted,  \* does the date selector take NaT as value and limits
    pc,            \* position of the current script run
    err,           \* the exception that ended the run, or "none"
    spx,           \* main()'s local spx (raw, then resampled)
    vix,           \* main()'s local vix
    df,            \* main()'s local df: the aligned table
    w_show_5h,     \* widget state kept by the runtime between runs
    w_show_20h,
    w_show_vix,
    w_show_raw,
    w_date_set,    \* has the user touched the date selector
    w_date,        \* the tuple the date selector holds once touched
    date_range,    \* create_plot's local date_range
    view,          \* what create_plot has produced so far in this run
    earlier        \* an earlier completed render, kept for comparison

vars == <<rawSpx, rawVix, nat_accepted, pc, err, spx, vix, df, w_show_5h, w_show_20h,
          w_show_vix, w_show_raw, w_date_set, w_date, date_range, view,
          earlier>>

-----------------------------------------------------------------------------
(* Bounds of the input files the model explores.                           *)

MaxPerHour == 3        \* most raw records in one hourly bucket
LongBuckets == 26      \* hourly buckets of the longest generated series
MidBuckets == 12       \* hourly buckets of a series too short for ma20
ShortBuckets == 4      \* hourly buckets of the shortest non-empty series

(* Program constants.                                                      *)

MinutesPerHour == 60
HoursPerDay == 24
Threshold == 1000
Ma5Window == 5
Ma20Window == 20
Decimals == 2
Float32Bits == 24
Float64Bits == 53
TickDivisor == 10
TailRows == 50
NaT == -1              \* the date of the index minimum of an empty table

-----------------------------------------------------------------------------
(* Arithmetic on the number representation.                                *)

NaN == [nan |-> TRUE]

Dy(n, k) == [n |-> n, k |-> k]

Dec(h) == [h |-> h]

Abs(x) == IF x < 0 THEN -x ELSE x

Max2(a, b) == IF a >= b THEN a ELSE b

RECURSIVE Pow2(_)
Pow2(k) == IF k <= 0 THEN 1 ELSE 2 * Pow2(k - 1)

RECURSIVE Pow10(_)
Pow10(k) == IF k <= 0 THEN 1 ELSE 10 * Pow10(k - 1)

RECURSIVE Norm(_, _)
Norm(n, k) == IF k > 0 /\ n % 2 = 0 THEN Norm(n \div 2, k - 1) ELSE Dy(n, k)

\* p / q (p >= 0, q > 0) rounded to the nearest integer, ties to even
RoundHalfEven(p, q) ==
    LET d == p \div q
        r == p % q
    IN  IF 2 * r < q THEN d
        ELSE IF 2 * r > q THEN d + 1
        ELSE IF d % 2 = 0 THEN d ELSE d + 1

\* floor(log2(p / q)) for p, q > 0
RECURSIVE Log2Floor(_, _)
Log2Floor(p, q) ==
    IF p < q THEN Log2Floor(2 * p, q) - 1
    ELSE IF p \div 2 >= q THEN Log2Floor(p \div 2, q) + 1
    ELSE 0

\* p * 2^t / q rounded to an integer, ties to even (p >= 0, q > 0, t >= 0)
RECURSIVE RoundScaled(_, _, _)
RoundScaled(p, t, q) ==
    IF t > 0 /\ q % 2 = 0 THEN RoundScaled(p, t - 1, q \div 2)
    ELSE RoundHalfEven(p * Pow2(t), q)

\* the float32 nearest to the rational p / q (p >= 0, q > 0)
F32Rat(p, q) ==
    IF p = 0 THEN Dy(0, 0)
    ELSE LET t == (Float32Bits - 1) - Log2Floor(p, q)
         IN  IF t >= 0 THEN Norm(RoundScaled(p, t, q), t)
             ELSE Dy(RoundHalfEven(p, q * Pow2(-t)) * Pow2(-t), 0)

\* the float32 nearest to the dyadic n / 2^k (any sign)
F32Dy(n, k) ==
    LET a == Abs(n)
        s == IF a = 0 THEN 0 ELSE Log2Floor(a, 1) + 1 - Float32Bits
        m == IF s <= 0 THEN a ELSE RoundHalfEven(a, Pow2(s)) * Pow2(s)
        r == Norm(m, k)
    IN  IF n < 0 THEN Dy(-r.n, r.k) ELSE r

\* numerator of a over the denominator 2^K, K >= a.k
Scale(a, K) == a.n * Pow2(K - a.k)

DyLess(a, b) ==
    LET K == Max2(a.k, b.k) IN Scale(a, K) < Scale(b, K)

\* GtInt with >= for >
GtInt_AtLeast(a, c) == a.n \div Pow2(a.k) >= c

\* a > c for a float a and an integer c
GtInt(a, c) ==
    LET P == Pow2(a.k)
    IN  \/ a.n \div P > c
        \/ a.n \div P = c /\ a.n % P > 0

\* float32 a - b
F32Sub(a, b) ==
    LET K == Max2(a.k, b.k) IN F32Dy(Scale(a, K) - Scale(b, K), K)

\* 2^t modulo m
RECURSIVE Pow2Mod(_, _)
Pow2Mod(t, m) == IF t <= 0 THEN 1 % m ELSE (2 * Pow2Mod(t - 1, m)) % m

\* numpy's round(2) of a mean that lies exactly between two hundredths,
\* N / 200 with N odd: x = the float64 nearest to N / 200, y = the float64
\* nearest to x * 100, and rint(y).  x misses N / 200 by d / (200 * 2^t),
\* t = 52 - floor(log2 x), so x * 100 misses N / 2 by d / 2^(e2 - e + 1)
\* units in the last place of N / 2; y leaves N / 2 when that exceeds a
\* half.  1: y is above N / 2, -1: below, 0: y = N / 2.
TieSide(N) ==
    LET U == Pow10(Decimals)
        e == Log2Floor(N, 2 * U)
        e2 == Log2Floor(N, 2)
        R == ((N % (2 * U)) * Pow2Mod(Float64Bits - 1 - e, 2 * U)) % (2 * U)
        d == IF R < U THEN -R ELSE 2 * U - R
    IN  IF Abs(d) > Pow2(e2 - e) THEN (IF d > 0 THEN 1 ELSE -1) ELSE 0

\* (S / 2^K) / w rounded by numpy's round(2): rint(mean * 100) / 100 in
\* float64.  Off a tie the float64 error is too small to matter.
RoundMean(S, K, w) ==
    LET D == w * Pow2(K)
        U == Pow10(Decimals)
        lo == U * (S \div D) + (U * (S % D)) \div D
        rem == (U * (S % D)) % D
        side == TieSide(2 * lo + 1)
    IN  Dec(IF 2 * rem < D THEN lo
            ELSE IF 2 * rem > D THEN lo + 1
            ELSE IF side = 1 THEN lo + 1
            ELSE IF side = -1 THEN lo
            ELSE IF lo % 2 = 0 THEN lo ELSE lo + 1)

\* format(a, ".2f") of a float a
Fmt2(a) ==
    LET P == Pow2(a.k)
        U == Pow10(Decimals)
        m == Abs(a.n)
        h == U * (m \div P) + RoundHalfEven(U * (m % P), P)
    IN  Dec(IF a.n < 0 THEN -h ELSE h)

-----------------------------------------------------------------------------
(* Tables.  A table is [columns, rows]: rows is a sequence of records with *)
(* the field date (the index) and one field per column.                    *)

Table(cols, rows) == [columns |-> cols, rows |-> rows]

NoTable == Table({}, <<>>)

RECURSIVE MaxK(_, _, _)
MaxK(rows, lo, hi) ==
    IF lo > hi THEN 0 ELSE Max2(rows[lo].close.k, MaxK(rows, lo + 1, hi))

RECURSIVE SumClose(_, _, _, _)
SumClose(rows, lo, hi, K) ==
    IF lo > hi THEN 0
    ELSE Scale(rows[lo].close, K) + SumClose(rows, lo + 1, hi, K)

\* df.index.min(), df.index.max()
MinDate(rows) ==
    CHOOSE d \in {rows[i].date : i \in 1..Len(rows)} :
        \A i \in 1..Len(rows) : d <= rows[i].date

MaxDate(rows) ==
    CHOOSE d \in {rows[i].date : i \in 1..Len(rows)} :
        \A i \in 1..Len(rows) : d >= rows[i].date

\* HourFloor rounding to the nearest hour
HourFloor_Nearest(t) ==
    LET u == t + MinutesPerHour \div 2 IN u - (u % MinutesPerHour)

\* the start of the hour that holds minute t
HourFloor(t) == t - (t % MinutesPerHour)

\* Series.mean() of one bucket: the rational [p, q] = p / q over the
\* defined values, NaN when the bucket holds none
BucketMean(recs) ==
    LET vals == SelectSeq(recs, LAMBDA r : r.close # NaN)
        K == MaxK(vals, 1, Len(vals))
    IN  IF Len(vals) = 0 THEN NaN
        ELSE [p |-> SumClose(vals, 1, Len(vals), K), q |-> Len(vals) * Pow2(K)]

\* df["close"].resample("1h").mean(): one row per hour from the first
\* record's hour to the last record's hour
ResampleMean(raw) ==
    IF Len(raw) = 0 THEN <<>>
    ELSE LET first == HourFloor(MinDate(raw))
             last == HourFloor(MaxDate(raw))
             n == (last - first) \div MinutesPerHour + 1
         IN  [i \in 1..n |->
                LET h == first + (i - 1) * MinutesPerHour
                IN  [date |-> h,
                     close |-> BucketMean(SelectSeq(raw,
                                  LAMBDA r : HourFloor(r.date) = h))]]

\* .dropna(): the rows with no undefined value in any column
DropNa(cols, rows) ==
    SelectSeq(rows, LAMBDA r : \A c \in cols : r[c] # NaN)

\* .astype("float32")
AsFloat32(rows) ==
    [i \in 1..Len(rows) |->
        [date |-> rows[i].date, close |-> F32Rat(rows[i].close.p, rows[i].close.q)]]

\* RollingMean with the window counted in hours: rolling("5h") for rolling(5)
RollingMean_ByHours(rows, w) ==
    [i \in 1..Len(rows) |->
        LET lo == CHOOSE j \in 1..i :
                      /\ rows[j].date > rows[i].date - w * MinutesPerHour
                      /\ \A l \in 1..(j - 1) :
                            rows[l].date <= rows[i].date - w * MinutesPerHour
            K == MaxK(rows, lo, i)
        IN  IF i - lo + 1 < w THEN NaN
            ELSE RoundMean(SumClose(rows, lo, i, K), K, w)]

\* df["close"].rolling(w).mean().round(2)
RollingMean(rows, w) ==
    [i \in 1..Len(rows) |->
        IF i < w THEN NaN
        ELSE LET K == MaxK(rows, i - w + 1, i)
             IN  RoundMean(SumClose(rows, i - w + 1, i, K), K, w)]

\* read_data(fname): the table held by the file
read_data(file) == Table({"date", "close"}, file)

\* add_moving_averages(df): [err, df]
add_moving_averages(t) ==
    LET rows == AsFloat32(DropNa({"close"}, ResampleMean(t.rows)))
    IN  IF Len(rows) = 0
        THEN [err |-> "IndexError", df |-> Table({"close"}, rows)]
        ELSE IF GtInt(rows[1].close, Threshold)
        THEN LET ma5 == RollingMean(rows, Ma5Window)
                 ma20 == RollingMean(rows, Ma20Window)
             IN  [err |-> "none",
                  df |-> Table({"close", "ma5", "ma20"},
                      [i \in 1..Len(rows) |->
                          [date |-> rows[i].date, close |-> rows[i].close,
                           ma5 |-> ma5[i], ma20 |-> ma20[i]]])]
        ELSE [err |-> "none", df |-> Table({"close"}, rows)]

\* the name a column of the right table gets in the join
JoinName(c, leftCols, rsuffix) == IF c \in leftCols THEN c \o rsuffix ELSE c

\* left.join(right, how="left", rsuffix=rsuffix)
JoinLeft(left, right, rsuffix) ==
    LET names == {JoinName(c, left.columns, rsuffix) : c \in right.columns}
        From(nm) == CHOOSE c \in right.columns :
                        JoinName(c, left.columns, rsuffix) = nm
        Match(d) == SelectSeq(right.rows, LAMBDA r : r.date = d)
    IN  Table(left.columns \cup names,
              [i \in 1..Len(left.rows) |->
                  LET m == Match(left.rows[i].date)
                  IN  left.rows[i] @@
                      [nm \in names |->
                          IF Len(m) = 0 THEN NaN ELSE m[1][From(nm)]]])

\* combine_dfs without .dropna()
combine_dfs_KeepNa(s, v) == JoinLeft(s, v, "_vix")

\* combine_dfs(spx, vix)
combine_dfs(s, v) ==
    LET j == JoinLeft(s, v, "_vix")
    IN  Table(j.columns, DropNa(j.columns, j.rows))

-----------------------------------------------------------------------------
(* The input files.  A file is built from a profile: where its hourly      *)
(* buckets lie (shape), the level of its values, how many buckets it has   *)
(* and how many raw records fall in each bucket (style).                   *)

Minute(day, hour, min) == (day * HoursPerDay + hour) * MinutesPerHour + min

\* hour of the i-th bucket.  "cont": consecutive hours from midnight of
\* day 0.  "sess": seven hours a day from 09:00, no trading on day 3.
BucketHour(shape, i) ==
    IF shape = "cont" THEN Minute(0, i - 1, 0)
    ELSE LET d == (i - 1) \div 7
         IN  Minute(IF d >= 3 THEN d + 1 ELSE d, 9 + ((i - 1) % 7), 0)

\* the value level of the i-th bucket
LevelAt(level, i) ==
    CASE level = "spx"     -> Dy(4000 + (i - 1), 0)
      [] level = "vix"     -> Dy(10 + (i - 1), 0)
      [] level = "at1000"  -> Dy(1000 + 3 * (i - 1), 0)
      [] level = "over"    -> IF i = 1 THEN Dy(4001, 2) ELSE Dy(1000 + 3 * i, 0)
      [] level = "hair"    -> IF i = 1 THEN Dy(65536001, 16) ELSE Dy(1000 + 3 * i, 0)
      [] level = "tie"     -> IF i = 1 THEN Dy(8193, 3)
                              ELSE IF i = 6 THEN Dy(8211, 3)
                              ELSE IF i = 22 THEN Dy(2049, 1)
                              ELSE Dy(1024, 0)
      [] level = "fall"    -> IF i <= 2 THEN Dy(4000 + i, 0) ELSE Dy(900 + i, 0)
      [] level = "rise"    -> IF i <= 2 THEN Dy(900 + i, 0) ELSE Dy(4000 + i, 0)

\* v + q / 4
AddQuarters(v, q) ==
    LET K == Max2(v.k, 2) IN Norm(Scale(v, K) + q * Pow2(K - 2), K)

\* the raw records of the i-th bucket.  "one": a single record on the hour.
\* "many": 1 + i % MaxPerHour records spread over the hour, the j-th one
\* (j - 1)^2 quarters above the level; every seventh bucket holds only an
\* undefined close, every fourth bucket an extra undefined close.
BucketRecords(shape, level, style, i) ==
    LET h == BucketHour(shape, i)
        v == LevelAt(level, i)
    IN  IF style = "one" THEN << [date |-> h, close |-> v] >>
        ELSE IF i % 7 = 0 THEN << [date |-> h + 7, close |-> NaN] >>
        ELSE [j \in 1..(1 + (i % MaxPerHour)) |->
                 [date |-> h + 5 + ((j - 1) * MinutesPerHour) \div MaxPerHour,
                  close |-> AddQuarters(v, (j - 1) * (j - 1))]]
             \o (IF i % 4 = 0 THEN << [date |-> h + 59, close |-> NaN] >>
                 ELSE <<>>)

RECURSIVE RawFile(_, _, _, _)
RawFile(shape, level, style, n) ==
    IF n = 0 THEN <<>>
    ELSE RawFile(shape, level, style, n - 1)
         \o BucketRecords(shape, level, style, n)

Profile(shape, level, style, n) ==
    [shape |-> shape, level |-> level, style |-> style, n |-> n]

FileOf(pr) == RawFile(pr.shape, pr.level, pr.style, pr.n)

\* a file whose every close is undefined
AllNaN(raw) == [i \in 1..Len(raw) |-> [date |-> raw[i].date, close |-> NaN]]

-----------------------------------------------------------------------------
(* create_plot.                                                            *)

NoMetric == [none |-> TRUE]

NoView == [stage |-> "none", filtered |-> NoTable, fig |-> <<>>,
           metrics |-> <<>>, raw |-> NoTable]

\* Timestamp.date()
DateOf(t) == t \div (HoursPerDay * MinutesPerHour)

\* strftime('%Y-%m-%d %H:%M')
StrfTime(t) ==
    [date |-> DateOf(t),
     H |-> (t \div MinutesPerHour) % HoursPerDay,
     M |-> t % MinutesPerHour]

\* (df.index.min().date(), df.index.max().date())
DefaultRange(t) ==
    IF Len(t.rows) = 0 THEN <<NaT, NaT>>
    ELSE <<DateOf(MinDate(t.rows)), DateOf(MaxDate(t.rows))>>

\* the tuples the date selector can hold: a start date alone, or a start
\* and an end, each within min_value .. max_value
DateChoices(t) ==
    IF Len(t.rows) = 0 THEN {}
    ELSE LET D == DefaultRange(t)[1] .. DefaultRange(t)[2]
         IN  {<<a>> : a \in D} \cup {c \in D \X D : c[1] <= c[2]}

\* a reference to a table: alias tells whether it is the object df itself
Ref(alias, t) == [alias |-> alias, table |-> t]

\* FilterByDate with the end date excluded
FilterByDate_EndExcluded(t, range) ==
    IF Len(range) = 2
    THEN Ref(FALSE, Table(t.columns,
             SelectSeq(t.rows, LAMBDA r : /\ DateOf(r.date) >= range[1]
                                         /\ DateOf(r.date) < range[2])))
    ELSE Ref(TRUE, t)

\* FilterByDate taking a single date as the range of that one day
FilterByDate_SingleDay(t, range) ==
    IF Len(range) >= 1
    THEN Ref(FALSE, Table(t.columns,
             SelectSeq(t.rows, LAMBDA r : /\ DateOf(r.date) >= range[1]
                                         /\ DateOf(r.date) <= range[Len(range)])))
    ELSE Ref(TRUE, t)

\* lines 39-43: df[mask] is a new table, df_filtered = df is the same object
FilterByDate(t, range) ==
    IF Len(range) = 2
    THEN Ref(FALSE, Table(t.columns,
             SelectSeq(t.rows, LAMBDA r : /\ DateOf(r.date) >= range[1]
                                         /\ DateOf(r.date) <= range[2])))
    ELSE Ref(TRUE, t)

\* line 46 without the copy
CopyTable_Missing(ref) == ref

\* line 46: df_filtered.copy()
CopyTable(ref) == Ref(FALSE, ref.table)

\* line 47: df_filtered['numeric_index'] = range(len(df_filtered))
SetNumericIndex(ref) ==
    Ref(ref.alias,
        Table(ref.table.columns \cup {"numeric_index"},
              [i \in 1..Len(ref.table.rows) |->
                  [numeric_index |-> i - 1] @@ ref.table.rows[i]]))

\* lines 38-47
FilteredView(t, range) == SetNumericIndex(CopyTable(FilterByDate(t, range)))

\* seq[::step]
Stride(seq, step) ==
    [j \in 1..((Len(seq) + step - 1) \div step) |-> seq[1 + (j - 1) * step]]

Column(rows, c) == [i \in 1..Len(rows) |-> rows[i][c]]

Labels(rows) == [i \in 1..Len(rows) |-> StrfTime(rows[i].date)]

\* go.Scatter(x=numeric_index, y=column, name=..., text=labels), row=panel
Trace(name, rows, c, panel) ==
    [name |-> name, panel |-> panel, x |-> Column(rows, "numeric_index"),
     y |-> Column(rows, c), text |-> Labels(rows)]

\* lines 49-148: the figure
BuildChart(t, show_5h, show_20h, show_vix) ==
    LET rows == t.rows
        tick_interval == Max2(1, Len(rows) \div TickDivisor)
    IN  [row_heights |-> IF show_vix THEN <<7, 3>> ELSE <<10, 0>>,
         traces |->
              << Trace("SPX", rows, "close", 1) >>
           \o (IF show_5h /\ "ma5" \in t.columns
               THEN << Trace("5H Avg", rows, "ma5", 1) >> ELSE <<>>)
           \o (IF show_20h /\ "ma20" \in t.columns
               THEN << Trace("20H Avg", rows, "ma20", 1) >> ELSE <<>>)
           \o (IF show_vix /\ "close_vix" \in t.columns
               THEN << Trace("VIX", rows, "close_vix", 2) >> ELSE <<>>),
         tickvals |-> Stride(Column(rows, "numeric_index"), tick_interval),
         ticktext |-> Stride(Labels(rows), tick_interval),
         ytitles |-> IF show_vix THEN <<"SPX Price ($)", "VIX">>
                     ELSE <<"SPX Price ($)">>]

\* s.max(), s.min()
MaxOf(vals) ==
    vals[CHOOSE i \in 1..Len(vals) :
            \A j \in 1..Len(vals) : ~DyLess(vals[i], vals[j])]

MinOf(vals) ==
    vals[CHOOSE i \in 1..Len(vals) :
            \A j \in 1..Len(vals) : ~DyLess(vals[j], vals[i])]

\* LastAndDelta with the difference taken the other way round
LastAndDelta_Swapped(vals) ==
    [value |-> Fmt2(vals[Len(vals)]),
     delta |-> Fmt2(F32Sub(vals[1], vals[Len(vals)]))]

\* value and delta of st.metric: f"{s.iloc[-1]:.2f}", f"{s.iloc[-1] - s.iloc[0]:.2f}"
LastAndDelta(vals) ==
    [value |-> Fmt2(vals[Len(vals)]),
     delta |-> Fmt2(F32Sub(vals[Len(vals)], vals[1]))]

\* f"{s.max() - s.min():.2f}"
RangeOf(vals) == Fmt2(F32Sub(MaxOf(vals), MinOf(vals)))

\* lines 154-165: [err, metrics]
Statistics(t) ==
    IF Len(t.rows) = 0 THEN [err |-> "IndexError", metrics |-> <<>>]
    ELSE LET hasVix == "close_vix" \in t.columns
             c == Column(t.rows, "close")
         IN  [err |-> "none",
              metrics |->
                << LastAndDelta(c),
                   IF hasVix THEN LastAndDelta(Column(t.rows, "close_vix"))
                   ELSE NoMetric,
                   RangeOf(c),
                   IF hasVix THEN RangeOf(Column(t.rows, "close_vix"))
                   ELSE NoMetric >>]

\* df.drop(columns=[c])
DropColumn(t, c) ==
    Table(t.columns \ {c},
          [i \in 1..Len(t.rows) |->
              [f \in (DOMAIN t.rows[i]) \ {c} |-> t.rows[i][f]]])

\* df.tail(n)
TailOf(t, n) ==
    LET len == Len(t.rows)
    IN  Table(t.columns,
              IF len <= n THEN t.rows ELSE SubSeq(t.rows, len - n + 1, len))

\* lines 168-169
RawData(t, show_raw) ==
    IF show_raw THEN TailOf(DropColumn(t, "numeric_index"), TailRows) ELSE NoTable

-----------------------------------------------------------------------------
(* The files the model explores.                                           *)

Scenario25Spx == Profile("cont", "spx", "one", 25)
Scenario25Vix == Profile("cont", "vix", "one", 25)

SpxProfiles ==
    { Scenario25Spx,
      Profile("sess", "spx", "one", LongBuckets),
      Profile("sess", "spx", "many", LongBuckets),
      Profile("cont", "spx", "many", LongBuckets),
      Profile("sess", "spx", "one", MidBuckets),
      Profile("sess", "spx", "many", ShortBuckets),
      Profile("sess", "spx", "one", 0),
      Profile("sess", "at1000", "one", LongBuckets),
      Profile("sess", "over", "many", LongBuckets),
      Profile("sess", "hair", "one", LongBuckets),
      Profile("sess", "fall", "one", LongBuckets),
      Profile("sess", "tie", "one", LongBuckets),
      Profile("sess", "rise", "many", LongBuckets) }

VixProfiles ==
    { Scenario25Vix,
      Profile("sess", "vix", "one", LongBuckets),
      Profile("sess", "vix", "many", LongBuckets),
      Profile("sess", "spx", "one", LongBuckets),
      Profile("sess", "vix", "one", 0) }

SpxFiles ==
    {FileOf(pr) : pr \in SpxProfiles}
    \cup {AllNaN(FileOf(Profile("sess", "spx", "many", ShortBuckets)))}

VixFiles == {FileOf(pr) : pr \in VixProfiles}

-----------------------------------------------------------------------------
(* The script run and the user.                                            *)

Start(s, v) ==
    /\ rawSpx = s
    /\ rawVix = v
    /\ nat_accepted \in BOOLEAN
    /\ pc = "start"
    /\ err = "none"
    /\ spx = NoTable
    /\ vix = NoTable
    /\ df = NoTable
    /\ w_show_5h = TRUE
    /\ w_show_20h = TRUE
    /\ w_show_vix = TRUE
    /\ w_show_raw = FALSE
    /\ w_date_set = FALSE
    /\ w_date = <<>>
    /\ date_range = <<>>
    /\ view = NoView
    /\ earlier = [set |-> FALSE]

Init == \E s \in SpxFiles, v \in VixFiles : Start(s, v)

widgets == <<w_show_5h, w_show_20h, w_show_vix, w_show_raw, w_date_set, w_date>>

files == <<rawSpx, rawVix, nat_accepted>>

\* main, lines 172-173
ReadFiles ==
    /\ pc = "start"
    /\ spx' = read_data(rawSpx)
    /\ vix' = read_data(rawVix)
    /\ pc' = "read"
    /\ UNCHANGED <<files, widgets, err, df, date_range, view, earlier>>

\* main, line 174
ResampleSpx ==
    /\ pc = "read"
    /\ LET r == add_moving_averages(spx)
       IN  IF r.err = "none"
           THEN spx' = r.df /\ pc' = "spx" /\ err' = err
           ELSE spx' = spx /\ pc' = "error" /\ err' = r.err
    /\ UNCHANGED <<files, widgets, vix, df, date_range, view, earlier>>

\* main, line 175
ResampleVix ==
    /\ pc = "spx"
    /\ LET r == add_moving_averages(vix)
       IN  IF r.err = "none"
           THEN vix' = r.df /\ pc' = "vix" /\ err' = err
           ELSE vix' = vix /\ pc' = "error" /\ err' = r.err
    /\ UNCHANGED <<files, widgets, spx, df, date_range, view, earlier>>

\* main, line 176
Combine ==
    /\ pc = "vix"
    /\ df' = combine_dfs(spx, vix)
    /\ pc' = "combined"
    /\ UNCHANGED <<files, widgets, err, spx, vix, date_range, view, earlier>>

\* create_plot, lines 21-36: the widgets hand back the values they hold.
\* The date selector of an empty table is given NaT as value and limits,
\* which the widget library rejects or hands back: which of the two is
\* not decided by this code, and is the same in every run.
Widgets ==
    /\ pc = "combined"
    /\ IF Len(df.rows) = 0 /\ ~nat_accepted
       THEN /\ pc' = "error"
            /\ err' = "WidgetError"
            /\ view' = [view EXCEPT !.stage = "checkboxes"]
            /\ UNCHANGED date_range
       ELSE /\ pc' = "widgets"
            /\ date_range' = IF w_date_set THEN w_date ELSE DefaultRange(df)
            /\ view' = [view EXCEPT !.stage = "widgets"]
            /\ err' = err
    /\ UNCHANGED <<files, widgets, spx, vix, df, earlier>>

\* create_plot, lines 38-47
Filter ==
    /\ pc = "widgets"
    /\ LET ref == FilteredView(df, date_range)
       IN  /\ view' = [view EXCEPT !.stage = "filter", !.filtered = ref.table]
           /\ df' = IF ref.alias THEN ref.table ELSE df
    /\ pc' = "filtered"
    /\ UNCHANGED <<files, widgets, err, spx, vix, date_range, earlier>>

\* create_plot, lines 49-148
Chart ==
    /\ pc = "filtered"
    /\ view' = [view EXCEPT !.stage = "chart",
                            !.fig = BuildChart(view.filtered, w_show_5h,
                                               w_show_20h, w_show_vix)]
    /\ pc' = "charted"
    /\ UNCHANGED <<files, widgets, err, spx, vix, df, date_range, earlier>>

\* create_plot, lines 150-169
Stats ==
    /\ pc = "charted"
    /\ LET r == Statistics(view.filtered)
       IN  IF r.err = "none"
           THEN /\ view' = [view EXCEPT !.stage = "stats",
                                        !.metrics = r.metrics,
                                        !.raw = RawData(view.filtered, w_show_raw)]
                /\ pc' = "done"
                /\ err' = err
           ELSE /\ view' = view
                /\ pc' = "error"
                /\ err' = r.err
    /\ UNCHANGED <<files, widgets, spx, vix, df, date_range, earlier>>

\* the three sidebar checkboxes are on the page once a run has passed
\* line 28, the date selector once it has passed line 36
CheckboxesShown ==
    pc = "done" \/ (pc = "error" /\ view.stage \in {"checkboxes", "chart"})

DateInputShown == pc = "done" \/ (pc = "error" /\ view.stage = "chart")

\* a change of a widget starts the script again from the top
Rerun ==
    /\ pc' = "start"
    /\ err' = "none"
    /\ spx' = NoTable
    /\ vix' = NoTable
    /\ df' = NoTable
    /\ date_range' = <<>>
    /\ view' = NoView
    /\ UNCHANGED <<files, earlier>>

Toggle5h ==
    /\ CheckboxesShown
    /\ w_show_5h' = ~w_show_5h
    /\ Rerun
    /\ UNCHANGED <<w_show_20h, w_show_vix, w_show_raw, w_date_set, w_date>>

Toggle20h ==
    /\ CheckboxesShown
    /\ w_show_20h' = ~w_show_20h
    /\ Rerun
    /\ UNCHANGED <<w_show_5h, w_show_vix, w_show_raw, w_date_set, w_date>>

ToggleVix ==
    /\ CheckboxesShown
    /\ w_show_vix' = ~w_show_vix
    /\ Rerun
    /\ UNCHANGED <<w_show_5h, w_show_20h, w_show_raw, w_date_set, w_date>>

ToggleRaw ==
    /\ pc = "done"
    /\ w_show_raw' = ~w_show_raw
    /\ Rerun
    /\ UNCHANGED <<w_show_5h, w_show_20h, w_show_vix, w_date_set, w_date>>

PickDates ==
    /\ DateInputShown
    /\ \E c \in DateChoices(df) :
          /\ ~(w_date_set /\ w_date = c)
          /\ w_date' = c
    /\ w_date_set' = TRUE
    /\ Rerun
    /\ UNCHANGED <<w_show_5h, w_show_20h, w_show_vix, w_show_raw>>

Next ==
    \/ ReadFiles
    \/ ResampleSpx
    \/ ResampleVix
    \/ Combine
    \/ Widgets
    \/ Filter
    \/ Chart
    \/ Stats
    \/ Toggle5h
    \/ Toggle20h
    \/ ToggleVix
    \/ ToggleRaw
    \/ PickDates

Spec == Init /\ [][Next]_vars

-----------------------------------------------------------------------------
(* A second specification: beside the run, an observer may remember a      *)
(* completed render, to compare a later render of the same controls to it. *)

Controls == <<w_date_set, w_date, w_show_5h, w_show_20h, w_show_vix, w_show_raw>>

Rendered == [set |-> TRUE, controls |-> Controls, df |-> df, view |-> view,
             err |-> err]

Remember ==
    /\ pc \in {"done", "error"}
    /\ earlier # Rendered
    /\ earlier' = Rendered
    /\ UNCHANGED <<files, widgets, pc, err, spx, vix, df, date_range, view>>

InitRepeat ==
    \/ Start(FileOf(Scenario25Spx), FileOf(Scenario25Vix))
    \/ Start(FileOf(Profile("sess", "spx", "one", MidBuckets)),
             FileOf(Profile("sess", "vix", "one", MidBuckets)))

NextRepeat == Next \/ Remember

SpecRepeat == InitRepeat /\ [][NextRepeat]_vars

-----------------------------------------------------------------------------
(* Properties.                                                             *)

\* t is a table that add_moving_averages returned
IsResampled(t) == t.columns # {} /\ "date" \notin t.columns

Dates(t) == {t.rows[i].date : i \in 1..Len(t.rows)}

Increasing(t) ==
    \A i \in 1..(Len(t.rows) - 1) : t.rows[i].date < t.rows[i + 1].date

FirstAbove1000(t) == t.rows[1].close.n > 1000 * Pow2(t.rows[1].close.k)

\* C1: a resampled series has the columns ma5 and ma20 exactly when its
\* first close is strictly greater than 1000, whatever its later values
C1_MaIffFirstAbove1000 ==
    \A t \in {spx, vix} :
        IsResampled(t) /\ Len(t.rows) > 0 =>
            /\ "ma5" \in t.columns <=> FirstAbove1000(t)
            /\ "ma20" \in t.columns <=> FirstAbove1000(t)

\* the primary starts near 4000, falls below 1000 and has both columns;
\* the secondary starts near 10 and has neither
C1_Witness ==
    /\ pc = "vix"
    /\ {"ma5", "ma20"} \subseteq spx.columns
    /\ \E i \in 2..Len(spx.rows) : ~GtInt(spx.rows[i].close, 999)
    /\ Len(vix.rows) > 0
    /\ vix.columns = {"close"}

\* h / 100 is a hundredth nearest to the mean of rows lo..hi
IsRoundedMean(h, rows, lo, hi) ==
    LET K == MaxK(rows, lo, hi)
        S == SumClose(rows, lo, hi, K)
        D == (hi - lo + 1) * Pow2(K)
        e == h - 100 * (S \div D)
    IN  e \in 0..100 /\ 2 * Abs(e * D - 100 * (S % D)) <= D

MaColumnOk(t, c, w) ==
    \A i \in 1..Len(t.rows) :
        IF i < w THEN t.rows[i][c] = NaN
        ELSE /\ t.rows[i][c] # NaN
             /\ IsRoundedMean(t.rows[i][c].h, t.rows, i - w + 1, i)

\* C2: where the moving averages are computed, ma5 is undefined at
\* positions 0..3 and ma20 at 0..18, and from then on each is the mean of
\* the last 5 (20) buckets' closes rounded to two decimals
C2_TrailingMeans ==
    \A t \in {spx, vix} :
        IsResampled(t) /\ "ma5" \in t.columns =>
            MaColumnOk(t, "ma5", 5) /\ MaColumnOk(t, "ma20", 20)

\* a series with hours missing between its buckets, long enough for ma20,
\* one of whose ma20 values is not an exact hundredth before rounding
C2_Witness ==
    /\ IsResampled(spx)
    /\ "ma20" \in spx.columns
    /\ Len(spx.rows) > 20
    /\ \E i \in 1..(Len(spx.rows) - 1) :
          spx.rows[i + 1].date - spx.rows[i].date > 60
    /\ \E i \in 20..Len(spx.rows) :
          LET K == MaxK(spx.rows, i - 19, i)
              D == 20 * Pow2(K)
          IN  (100 * (SumClose(spx.rows, i - 19, i, K) % D)) % D # 0

HasMa20(r) == "ma20" \in DOMAIN r /\ r.ma20 # NaN

AlignedRowsOk ==
    /\ \A i \in 1..Len(df.rows) : \A c \in df.columns : df.rows[i][c] # NaN
    /\ Dates(df) \subseteq Dates(spx)
    /\ Dates(df) \subseteq Dates(vix)
    /\ Increasing(df)

NoMa20Overlap ==
    \A i \in 1..Len(spx.rows) :
        ~(HasMa20(spx.rows[i]) /\ spx.rows[i].date \in Dates(vix))

\* C3 as stated: the aligned table has no undefined value, its timestamps
\* occur in both series, in ascending order, and it is empty when no
\* timestamp with a defined ma20 overlaps the secondary series
C3_AsStated ==
    df.columns # {} =>
        /\ AlignedRowsOk
        /\ NoMa20Overlap => Len(df.rows) = 0

\* C3 amended: the last part holds of a primary series that has the ma20
\* column
C3_Aligned ==
    df.columns # {} =>
        /\ AlignedRowsOk
        /\ "ma20" \in spx.columns /\ NoMa20Overlap => Len(df.rows) = 0

\* a non-empty aligned table that lacks a timestamp at which the primary
\* has a defined ma20, the secondary having no bucket there
C3_Witness ==
    /\ pc = "combined"
    /\ Len(df.rows) > 0
    /\ \E i \in 1..Len(spx.rows) :
          /\ HasMa20(spx.rows[i])
          /\ spx.rows[i].date \notin Dates(vix)
          /\ spx.rows[i].date \notin Dates(df)

\* the files of the end-to-end scenario: 25 hourly records 4000..4024 and
\* 10..34, rendered with the date selector untouched
Scenario25 ==
    /\ Len(rawSpx) = 25
    /\ Len(rawVix) = 25
    /\ \A i \in 1..25 :
          /\ rawSpx[i] = [date |-> 60 * (i - 1), close |-> Dy(3999 + i, 0)]
          /\ rawVix[i] = [date |-> 60 * (i - 1), close |-> Dy(9 + i, 0)]
    /\ pc = "done"
    /\ ~w_date_set

\* C4 as stated: 6 rows, last ma20 = 4014.50, primary delta 19.00 and
\* secondary range 19.00
C4_AsStated ==
    Scenario25 =>
        /\ Len(df.rows) = 6
        /\ df.rows[6].ma20 = Dec(401450)
        /\ view.metrics[1].delta = Dec(1900)
        /\ view.metrics[4] = Dec(1900)

\* C4 amended: 6 rows (4019..4024 and 29..34), last ma20 = 4014.50,
\* primary delta 4024 - 4019 = 5.00 and secondary range 34 - 29 = 5.00
C4_Scenario ==
    Scenario25 =>
        /\ Len(df.rows) = 6
        /\ df.rows[6].ma20 = Dec(401450)
        /\ view.metrics[1].delta = Dec(500)
        /\ view.metrics[4] = Dec(500)

C4_Witness ==
    /\ Scenario25
    /\ Len(view.filtered.rows) = 6
    /\ view.filtered.rows[1].close = Dy(4019, 0)
    /\ view.filtered.rows[1].close_vix = Dy(29, 0)

\* C5 as stated: a date range that leaves no row of a non-empty aligned
\* table ends the statistics without an exception
C5_AsStated ==
    (/\ pc \in {"done", "error"}
     /\ view.stage \in {"chart", "stats"}
     /\ Len(df.rows) > 0
     /\ Len(view.filtered.rows) = 0)
    => (pc = "done" /\ err = "none")

NoDefinedClose(raw) == \A i \in 1..Len(raw) : raw[i].close = NaN

\* C6 as stated: add_moving_averages of a file with no defined close
\* returns an empty series and raises nothing
C6_AsStated ==
    pc \notin {"start", "read"} /\ NoDefinedClose(rawSpx) =>
        /\ err = "none"
        /\ IsResampled(spx)
        /\ Len(spx.rows) = 0

InRange(r, range) ==
    /\ r.date \div 1440 >= range[1]
    /\ r.date \div 1440 <= range[2]

WithoutIndex(r) == [f \in (DOMAIN r) \ {"numeric_index"} |-> r[f]]

Filtered == pc \in {"filtered", "charted", "done"} \/ (pc = "error" /\ view.stage = "chart")

\* C7: with two dates the filtered table holds exactly the rows of the
\* aligned table whose date lies in [start, end], unchanged and in order;
\* the filter raises nothing even when no row is left
C7_FilterTwoDates ==
    Filtered /\ Len(date_range) = 2 =>
        /\ {WithoutIndex(view.filtered.rows[i]) : i \in 1..Len(view.filtered.rows)}
             = {df.rows[i] : i \in {j \in 1..Len(df.rows) : InRange(df.rows[j], date_range)}}
        /\ Increasing(view.filtered)
        /\ pc = "filtered" => err = "none"

\* a range that keeps some rows and drops others, the last kept row lying
\* on the end date after midnight
C7_Witness ==
    /\ pc = "filtered"
    /\ Len(date_range) = 2
    /\ Len(view.filtered.rows) > 0
    /\ Len(view.filtered.rows) < Len(df.rows)
    /\ LET last == view.filtered.rows[Len(view.filtered.rows)]
       IN  last.date \div 1440 = date_range[2] /\ last.date % 1440 > 0

\* C8: with a single date the filtered table is the whole aligned table,
\* same rows in the same order, and nothing is raised
C8_SingleDate ==
    Filtered /\ Len(date_range) # 2 =>
        /\ Len(view.filtered.rows) = Len(df.rows)
        /\ \A i \in 1..Len(df.rows) : WithoutIndex(view.filtered.rows[i]) = df.rows[i]
        /\ pc # "error"

\* a single date that, taken as a range, would drop rows
C8_Witness ==
    /\ pc = "filtered"
    /\ Len(date_range) = 1
    /\ \E i \in 1..Len(df.rows) : df.rows[i].date \div 1440 # date_range[1]

InCreatePlot == pc \in {"combined", "widgets", "filtered", "charted"}

\* C9: create_plot leaves the aligned table as it was given, and a render
\* under controls that were rendered before gives what it gave before
C9_RenderIsPure ==
    /\ [][InCreatePlot /\ pc' # "start" => df' = df]_vars
    /\ [](pc \in {"done", "error"} /\ earlier.set /\ earlier.controls = Controls
            => earlier.df = df /\ earlier.view = view /\ earlier.err = err)

\* a render of controls that were rendered before, other controls having
\* been rendered in between, the single date taking the branch without mask
C9_Witness ==
    /\ pc = "done"
    /\ earlier.set
    /\ earlier.controls = Controls
    /\ w_date_set
    /\ Len(w_date) = 1
    /\ ~w_show_5h
    /\ w_show_raw

InHour(raw, h) == SelectSeq(raw, LAMBDA r : r.date - (r.date % 60) = h)

DefinedHours(raw) ==
    {raw[i].date - (raw[i].date % 60) : i \in {j \in 1..Len(raw) : raw[j].close # NaN}}

BucketsOk(t, raw) ==
    /\ Increasing(t)
    /\ \A d \in Dates(t) : d % 60 = 0
    /\ Dates(t) = DefinedHours(raw)

\* c is the mean m = p / q exactly
IsMean(c, m) == c.n * m.q = m.p * Pow2(c.k)

\* c has at most 24 significant bits and lies within 2^-24 of m = p / q,
\* relative to m
IsFloat32OfMean(c, m) ==
    /\ c.n < Pow2(24)
    /\ Abs(c.n * m.q - m.p * Pow2(c.k)) <= (m.p * Pow2(c.k)) \div Pow2(24)

\* C10 as stated: timestamps strictly increasing, on hour boundaries,
\* exactly the hours holding a defined raw close, each close the mean of
\* the raw closes of that hour
C10_AsStated ==
    /\ IsResampled(spx) =>
          /\ BucketsOk(spx, rawSpx)
          /\ \A i \in 1..Len(spx.rows) :
                IsMean(spx.rows[i].close, BucketMean(InHour(rawSpx, spx.rows[i].date)))
    /\ IsResampled(vix) =>
          /\ BucketsOk(vix, rawVix)
          /\ \A i \in 1..Len(vix.rows) :
                IsMean(vix.rows[i].close, BucketMean(InHour(rawVix, vix.rows[i].date)))

\* C10 amended: each close is that mean rounded to 32-bit floating point
C10_Buckets ==
    /\ IsResampled(spx) =>
          /\ BucketsOk(spx, rawSpx)
          /\ \A i \in 1..Len(spx.rows) :
                IsFloat32OfMean(spx.rows[i].close,
                                BucketMean(InHour(rawSpx, spx.rows[i].date)))
    /\ IsResampled(vix) =>
          /\ BucketsOk(vix, rawVix)
          /\ \A i \in 1..Len(vix.rows) :
                IsFloat32OfMean(vix.rows[i].close,
                                BucketMean(InHour(rawVix, vix.rows[i].date)))

\* a series with a dropped hour, records off the hour, and a close that
\* differs from the mean of its hour
C10_Witness ==
    /\ IsResampled(spx)
    /\ \E i \in 1..(Len(spx.rows) - 1) :
          spx.rows[i + 1].date - spx.rows[i].date = 120
    /\ \E i \in 1..Len(rawSpx) : rawSpx[i].date % 60 # 0
    /\ \E i \in 1..Len(spx.rows) :
          ~IsMean(spx.rows[i].close, BucketMean(InHour(rawSpx, spx.rows[i].date)))

====
